---- MODULE Spec2Model ----
(***************************************************************************)
(* Model of etl.py: the batch job that reads catalog records (song_data)   *)
(* and event records (log_data), and writes the five tables songs,         *)
(* artists, users, times and songplays.                                    *)
(*                                                                         *)
(* A DataFrame is a bag (multiset) of rows, a row is a record.  SQL NULL   *)
(* is Null in a string column and NullNum in a numeric column.            *)
(***************************************************************************)
EXTENDS Integers, FiniteSets, Sequences, Bags, TLC

\* ------------------------------------------------------------------ bounds
MaxCatalog == 2
MaxEvents == 2

\* ------------------------------------------------------------------ values
Null == "null"
NullNum == -1
HostUtcOffset == 0

ConfigKeys == {"AWS_ACCESS_KEY_ID", "AWS_SECRET_ACCESS_KEY", "input_bucket", "output_bucket"}
Locations == {"songs", "artists", "users", "times", "songplays"}
UserIds == {"U1", "U2"}

\* the settings file: complete, or with one of the four keys missing
Configs == {ConfigKeys} \cup {ConfigKeys \ {k} : k \in ConfigKeys}

CatalogRecord(sid, title, aid, dur) ==
    [song_id |-> sid, title |-> title, artist_id |-> aid, year |-> 2000,
     duration |-> dur, artist_name |-> "Artist1", artist_location |-> "NYC",
     artist_latitude |-> 1, artist_longitude |-> 2]

\* a play event carries the song played and its length, another event neither
EventRecord(ts, uid, level, page, song) ==
    [ts |-> ts, userId |-> uid, firstName |-> "Jo", lastName |-> "Do",
     gender |-> "F", level |-> level, page |-> page, song |-> song,
     length |-> IF song = Null THEN NullNum ELSE 200,
     sessionId |-> 1, location |-> "NYC", userAgent |-> "UA"]

\* catalog records: the title and duration of the played song ("Test", 200)
\* or another title or duration; ids possibly missing or shared
CatalogAll ==
    {CatalogRecord(sid, t, aid, d) :
        sid \in {"S1", "S2", Null}, t \in {"Test", "Other"},
        aid \in {"A1", "A2"}, d \in {200, 300}}
CatalogFew ==
    {CatalogRecord("S1", "Test", "A1", 200), CatalogRecord("S2", "Other", "A2", 300)}

\* event records: play events of two users at four timestamps (two in the
\* same second, one on the next day, one missing), and non-play events
EventsAll ==
    {EventRecord(ts, u, l, "NextSong", "Test") :
        ts \in {1000, 1500, 90000000, NullNum}, u \in UserIds, l \in {"free", "paid"}}
    \cup {EventRecord(ts, u, "free", "Home", Null) : ts \in {2000, NullNum}, u \in UserIds}
EventsFew ==
    {EventRecord(1000, "U1", "free", "NextSong", "Test"),
     EventRecord(90000000, "U1", "paid", "NextSong", "Unlisted"),
     EventRecord(2000, "U2", "free", "Home", Null)}

\* all bags of at most n elements of S
RECURSIVE BagsUpTo(_, _)
BagsUpTo(S, n) ==
    IF n = 0 THEN {EmptyBag}
    ELSE LET smaller == BagsUpTo(S, n - 1)
         IN  smaller \cup {b (+) SetToBag({r}) : b \in smaller, r \in S}

\* ------------------------------------------------------------------ DataFrame operations
\* a dedup that is left out
KeepDuplicates(df) == df

distinct(df) == SetToBag(BagToSet(df))

\* a write in mode='append'
AppendParquet(old, new) == old (+) new

\* df.write.parquet(path, mode='overwrite'): the target's prior contents go
WriteParquet(old, new) == new

\* SQL equality: NULL equals nothing
SqlEq(a, b) == a # Null /\ b # Null /\ a = b

\* ------------------------------------------------------------------ timestamps
\* a conversion that divides as integers and loses the fraction
TruncatedTimestamp(ts) == [sec |-> ts \div 1000, micros |-> 0]

\* datetime.fromtimestamp(ts / 1000.0): float division, the fraction of the
\* second is kept in the microsecond field of the datetime
get_timestamp(ts) == [sec |-> ts \div 1000, micros |-> (ts % 1000) * 1000]

\* start_time a is later than start_time b
Later(a, b) == a.sec > b.sec \/ (a.sec = b.sec /\ a.micros > b.micros)

\* calendar fields of a start_time on the host's clock, for instants of 1970
\* (1 January 1970 is a Thursday, in ISO week 1; dayofweek counts from Sunday = 1)
LocalSec(st) == st.sec + HostUtcOffset
DaysSinceEpoch(st) == LocalSec(st) \div 86400
DayOfYear(st) == DaysSinceEpoch(st) % 365
MonthStart == <<0, 31, 59, 90, 120, 151, 181, 212, 243, 273, 304, 334, 365>>
hour(st) == (LocalSec(st) \div 3600) % 24
year(st) == 1970 + (DaysSinceEpoch(st) \div 365)
month(st) == CHOOSE m \in 1..12 : MonthStart[m] <= DayOfYear(st) /\ DayOfYear(st) < MonthStart[m + 1]
dayofmonth(st) == DayOfYear(st) - MonthStart[month(st)] + 1
weekofyear(st) == ((DayOfYear(st) + 3) \div 7) + 1
dayofweek(st) == ((DaysSinceEpoch(st) + 4) % 7) + 1

\* ------------------------------------------------------------------ process_song_data
SongColumns(r) ==
    [song_id |-> r.song_id, title |-> r.title, artist_id |-> r.artist_id,
     year |-> r.year, duration |-> r.duration]

ArtistColumns(r) ==
    [artist_id |-> r.artist_id, name |-> r.artist_name, location |-> r.artist_location,
     latitude |-> r.artist_latitude, longitude |-> r.artist_longitude]

songs_table(df) == distinct(BagOfAll(SongColumns, df))

artists_table(df) == distinct(BagOfAll(ArtistColumns, df))

\* ------------------------------------------------------------------ process_log_data
\* a filter that lets every page through
AnyPage(e) == TRUE

IsPlay(e) == e.page = "NextSong"

\* a transform that skips the filter
NoFilter(df) == df

PlayFilter(df) == [r \in {x \in BagToSet(df) : IsPlay(x)} |-> df[r]]

\* ORDER BY ts DESC puts NULL last: a missing ts is below every ts
TsBelow(a, b) == a # b /\ (a = NullNum \/ (b # NullNum /\ a < b))

\* a window with no ORDER BY: any row of the user may be numbered 1
AnyRank(df, u) == {e \in BagToSet(df) : e.userId = u}

\* the rows ROW_NUMBER() OVER (PARTITION BY userId ORDER BY ts DESC) may
\* number 1 in the partition of user u: those no row of u is above
RankOne(df, u) ==
    {e \in BagToSet(df) : e.userId = u /\
        \A f \in BagToSet(df) : f.userId = u => ~TsBelow(e.ts, f.ts)}

UserColumns(e) ==
    [user_id |-> e.userId, first_name |-> e.firstName, last_name |-> e.lastName,
     gender |-> e.gender, level |-> e.level]

\* one numbering of the window: for each userId, the row numbered 1
RankOneChoices(df) ==
    LET ids == {e.userId : e \in BagToSet(df)}
    IN  {pick \in [ids -> BagToSet(df)] : \A u \in ids : pick[u] \in RankOne(df, u)}

users_table(df, pick) ==
    distinct(BagOfAll(UserColumns, SetToBag({pick[u] : u \in DOMAIN pick})))

\* withColumn('start_time', ...) and the calendar columns
Enriched(e) ==
    LET st == get_timestamp(e.ts)
    IN  [ts |-> e.ts, userId |-> e.userId, firstName |-> e.firstName,
         lastName |-> e.lastName, gender |-> e.gender, level |-> e.level,
         page |-> e.page, song |-> e.song, length |-> e.length,
         sessionId |-> e.sessionId, location |-> e.location,
         userAgent |-> e.userAgent, start_time |-> st, date_time |-> st,
         hour |-> hour(st), day |-> dayofmonth(st), week |-> weekofyear(st),
         month |-> month(st), year |-> year(st), weekday |-> dayofweek(st)]

TimeColumns(x) ==
    [start_time |-> x.start_time, hour |-> x.hour, day |-> x.day, week |-> x.week,
     month |-> x.month, year |-> x.year, weekday |-> x.weekday]

\* a time table that is not deduplicated
time_table_dup(df) == BagOfAll(TimeColumns, df)

time_table(df) == distinct(BagOfAll(TimeColumns, df))

StageColumns(x) ==
    [start_time |-> x.start_time, song |-> x.song, page |-> x.page,
     userId |-> x.userId, level |-> x.level, sessionId |-> x.sessionId,
     location |-> x.location, userAgent |-> x.userAgent, month |-> x.month,
     year |-> x.year, length |-> x.length]

\* a join on the title alone
JoinOnTitle(ss, s) == SqlEq(ss.song, s.title)

\* ON ss.song = s.title AND ss.length = s.duration
JoinCond(ss, s) ==
    /\ SqlEq(ss.song, s.title)
    /\ ss.length # NullNum /\ s.duration # NullNum /\ ss.length = s.duration

\* the right side of a left row that no right row matches
NullTrack ==
    [song_id |-> Null, title |-> Null, artist_id |-> Null, year |-> NullNum,
     duration |-> NullNum]

LeftJoin(left, right) ==
    LET L == BagToSet(left)
        R == BagToSet(right)
        matched == {[ss |-> x, s |-> t] : x \in L, t \in R}
        pairs == {j \in matched : JoinCond(j.ss, j.s)}
                 \cup {[ss |-> x, s |-> NullTrack] :
                         x \in {y \in L : \A t \in R : ~JoinCond(y, t)}}
    IN  [j \in pairs |-> left[j.ss] * (IF j.s \in R THEN right[j.s] ELSE 1)]

\* the orders ORDER BY start_time DESC may put the joined rows in
RECURSIVE Orderings(_)
Orderings(B) ==
    IF BagToSet(B) = {} THEN {<<>>}
    ELSE LET top == {j \in BagToSet(B) :
                        \A k \in BagToSet(B) : ~Later(k.ss.start_time, j.ss.start_time)}
         IN  UNION {{<<j>> \o rest : rest \in Orderings(B (-) SetToBag({j}))} : j \in top}

SongplayRow(n, j) ==
    [songplay_id |-> n, start_time |-> j.ss.start_time, user_id |-> j.ss.userId,
     level |-> j.ss.level, song_id |-> j.s.song_id, artist_id |-> j.s.artist_id,
     session_id |-> j.ss.sessionId, location |-> j.ss.location,
     user_agent |-> j.ss.userAgent, year |-> j.ss.year, month |-> j.ss.month]

songplays_table(ord) == SetToBag({SongplayRow(n, ord[n]) : n \in 1..Len(ord)})

\* ------------------------------------------------------------------ state
VARIABLES
    config,        \* the keys present in section S3 of dl.config
    song_data,  \* the catalog records under the input bucket
    log_data,   \* the event records under the input bucket
    out,        \* the table at each of the five output locations
    views,      \* the temp views of the Spark session, by name
    pc,         \* where the process is
    run,        \* 1 in the first run of the job, 2 in the second
    reads,      \* the inputs this run has read
    written,    \* the output locations this run has written
    after1      \* history: the output locations as the first run left them

vars == <<config, song_data, log_data, out, views, pc, run, reads, written, after1>>

NoViews == [n \in {} |-> EmptyBag]

\* what an earlier run on other input left at the output locations
OldEvent == Enriched(EventRecord(500, "U0", "free", "NextSong", "Old"))
OldCatalog == SetToBag({CatalogRecord("S0", "Old", "A0", 100)})
StaleOut ==
    [songs |-> songs_table(OldCatalog),
     artists |-> artists_table(OldCatalog),
     users |-> SetToBag({UserColumns(OldEvent)}),
     times |-> SetToBag({TimeColumns(OldEvent)}),
     songplays |-> songplays_table(<<[ss |-> StageColumns(OldEvent), s |-> NullTrack]>>)]

InitWith(catalogs, logs) ==
    /\ config \in Configs
    /\ song_data \in catalogs
    /\ log_data \in logs
    /\ out = StaleOut
    /\ views = NoViews
    /\ pc = "import"
    /\ run = 1
    /\ reads = {}
    /\ written = {}
    /\ after1 = StaleOut

\* the event log varies most: any bag of events, on a catalog with or without
\* the played song
Init == InitWith({SetToBag(S) : S \in SUBSET CatalogFew}, BagsUpTo(EventsAll, MaxEvents))

\* the catalog varies most: any bag of catalog records, on a log of a few events
InitCatalog == InitWith(BagsUpTo(CatalogAll, MaxCatalog), {SetToBag(S) : S \in SUBSET EventsFew})

\* the keys the module reads when it is loaded, and those main() reads
ImportKeys == {"AWS_ACCESS_KEY_ID", "AWS_SECRET_ACCESS_KEY"}
InputKeyOnly == {"input_bucket"}
MainKeys == {"input_bucket", "output_bucket"}

\* module level: config.read('dl.cfg'), then the two credentials go to os.environ
config_read ==
    /\ pc = "import"
    /\ pc' = IF ImportKeys \subseteq config THEN "main" ELSE "failed"
    /\ UNCHANGED <<config, song_data, log_data, out, views, run, reads, written, after1>>

create_spark_session ==
    /\ pc = "main"
    /\ pc' = "session"
    /\ views' = NoViews
    /\ UNCHANGED <<config, song_data, log_data, out, run, reads, written, after1>>

\* main(): input_data and output_data are formatted from the two bucket keys
main ==
    /\ pc = "session"
    /\ pc' = IF MainKeys \subseteq config THEN "ready" ELSE "failed"
    /\ UNCHANGED <<config, song_data, log_data, out, views, run, reads, written, after1>>

\* spark.read.json of no record: the path matches nothing, or the frame has
\* no column for the select that follows to resolve; either way it raises
NothingToRead(data) == data = EmptyBag

process_song_data ==
    /\ pc = "ready"
    /\ reads' = reads \cup {"song_data"}
    /\ IF NothingToRead(song_data)
       THEN /\ pc' = "failed"
            /\ UNCHANGED <<out, views, written>>
       ELSE LET df == song_data
                songs == songs_table(df)
                artists == artists_table(df)
            IN  /\ out' = [out EXCEPT !.songs = WriteParquet(@, songs),
                                      !.artists = WriteParquet(@, artists)]
                /\ views' = [n \in DOMAIN views \cup {"songs"} |->
                                 IF n = "songs" THEN songs ELSE views[n]]
                /\ written' = written \cup {"songs", "artists"}
                /\ pc' = "song_done"
    /\ UNCHANGED <<config, song_data, log_data, run, after1>>

UsersViewColumns(e) ==
    [ts |-> e.ts, userId |-> e.userId, firstName |-> e.firstName,
     lastName |-> e.lastName, gender |-> e.gender, level |-> e.level]

process_log_data ==
    /\ pc = "song_done"
    /\ reads' = reads \cup {"log_data"}
    /\ IF NothingToRead(log_data)
       THEN /\ pc' = "failed"
            /\ UNCHANGED <<out, views, written>>
       ELSE
       LET df == PlayFilter(log_data)
           users_view == BagOfAll(UsersViewColumns, df)
       IN  \E pick \in RankOneChoices(users_view) :
             LET users == users_table(users_view, pick)
                 with_users == [n \in DOMAIN views \cup {"users"} |->
                                   IF n = "users" THEN users_view ELSE views[n]]
             IN  IF \E e \in BagToSet(df) : e.ts = NullNum
                 THEN \* the lambda of get_timestamp raises on a missing ts
                      \* when the time table is computed for its write
                      /\ out' = [out EXCEPT !.users = WriteParquet(@, users)]
                      /\ views' = with_users
                      /\ written' = written \cup {"users"}
                      /\ pc' = "failed"
                 ELSE LET enriched == BagOfAll(Enriched, df)
                          times == time_table(enriched)
                          stage == BagOfAll(StageColumns, enriched)
                      IN  \E ord \in Orderings(LeftJoin(stage, views["songs"])) :
                            /\ out' = [out EXCEPT
                                         !.users = WriteParquet(@, users),
                                         !.times = WriteParquet(@, times),
                                         !.songplays = WriteParquet(@, songplays_table(ord))]
                            /\ views' = [n \in DOMAIN with_users \cup {"stage_songplay"} |->
                                            IF n = "stage_songplay" THEN stage
                                            ELSE with_users[n]]
                            /\ written' = written \cup {"users", "times", "songplays"}
                            /\ pc' = "done"
    /\ UNCHANGED <<config, song_data, log_data, run, after1>>

\* the job is started again, on the same settings and input
Rerun ==
    /\ pc \in {"done", "failed"}
    /\ run = 1
    /\ run' = 2
    /\ after1' = out
    /\ pc' = "import"
    /\ views' = NoViews
    /\ reads' = {}
    /\ written' = {}
    /\ UNCHANGED <<config, song_data, log_data, out>>

Next ==
    \/ config_read
    \/ create_spark_session
    \/ main
    \/ process_song_data
    \/ process_log_data
    \/ Rerun

Spec == Init /\ [][Next]_vars

SpecCatalog == InitCatalog /\ [][Next]_vars

\* ------------------------------------------------------------------ properties
Rows(table) == BagToSet(table)
PlayEvents == {e \in BagToSet(log_data) : e.page = "NextSong"}
Terminal == pc \in {"done", "failed"}

\* the start_time st is the instant ts, to the millisecond
Encodes(st, ts) ==
    ts # NullNum /\ st.micros % 1000 = 0 /\ st.sec * 1000 + (st.micros \div 1000) = ts

\* event f is not more recent than event e
NotAfter(f, e) == f.ts = NullNum \/ (e.ts # NullNum /\ f.ts <= e.ts)

SameProfile(r, e) ==
    /\ r.user_id = e.userId /\ r.first_name = e.firstName /\ r.last_name = e.lastName
    /\ r.gender = e.gender /\ r.level = e.level

\* C1: once process_log_data has written the User table, no two of its rows
\* have the same user id, and each row carries the first name, last name,
\* gender and level of a play event of that user whose ts no other play event
\* of that user exceeds.
C1_UsersLatestProfile ==
    "users" \in written =>
        /\ \A r \in Rows(out.users) : out.users[r] = 1
        /\ \A r1, r2 \in Rows(out.users) : r1.user_id = r2.user_id => r1 = r2
        /\ \A r \in Rows(out.users) :
              \E e \in PlayEvents :
                 /\ SameProfile(r, e)
                 /\ \A f \in PlayEvents : f.userId = e.userId => NotAfter(f, e)

C1_Witness ==
    /\ pc = "done"
    /\ \E e, f \in PlayEvents :
          e.userId = f.userId /\ f.ts < e.ts /\ f.level # e.level

\* the Fact row r carries the event columns of event e
FactOf(r, e) ==
    /\ Encodes(r.start_time, e.ts) /\ r.user_id = e.userId /\ r.level = e.level
    /\ r.session_id = e.sessionId /\ r.location = e.location
    /\ r.user_agent = e.userAgent

\* the rows of the written Track table with the title and duration of event e
TracksOf(e) == {t \in Rows(out.songs) : t.title = e.song /\ t.duration = e.length}

\* C2 as stated: every Fact row is the row of a play event; when a Track row
\* has the event's title and duration, song_id and artist_id are both non-null
\* and are those of such a Track row, otherwise both are null; and no play
\* event is dropped.
C2_Original ==
    "songplays" \in written =>
        /\ \A r \in Rows(out.songplays) :
              \E e \in PlayEvents :
                 /\ FactOf(r, e)
                 /\ IF TracksOf(e) # {}
                    THEN /\ r.song_id # Null /\ r.artist_id # Null
                         /\ \E t \in TracksOf(e) :
                               r.song_id = t.song_id /\ r.artist_id = t.artist_id
                    ELSE r.song_id = Null /\ r.artist_id = Null
        /\ \A e \in PlayEvents : \E r \in Rows(out.songplays) : FactOf(r, e)

\* C2 amended: as C2, but the identifiers of a matched row are those of a
\* matching Track row, null where that Track row has none.
C2_JoinedIdentifiers ==
    "songplays" \in written =>
        /\ \A r \in Rows(out.songplays) :
              \E e \in PlayEvents :
                 /\ FactOf(r, e)
                 /\ IF TracksOf(e) # {}
                    THEN \E t \in TracksOf(e) :
                            r.song_id = t.song_id /\ r.artist_id = t.artist_id
                    ELSE r.song_id = Null /\ r.artist_id = Null
        /\ \A e \in PlayEvents : \E r \in Rows(out.songplays) : FactOf(r, e)

C2_Witness ==
    /\ pc = "done"
    /\ \E r \in Rows(out.songplays) : r.song_id = "S2" /\ r.artist_id = "A1"
    /\ \E e \in PlayEvents : TracksOf(e) = {}
    /\ \E t \in Rows(out.songs) : \A e \in PlayEvents : t \notin TracksOf(e)

\* the number of play records in the event log
PlayCount == BagCardinality([e \in PlayEvents |-> log_data[e]])

\* C3: the Fact table has as many rows as the event log has play events,
\* however many Track rows have the title and duration of an event.
C3_OneRowPerPlay ==
    "songplays" \in written => BagCardinality(out.songplays) = PlayCount

\* C4 as stated: no two rows of the Track table, as written to songs and as
\* registered in the view songs, have the same song_id.
C4_Original ==
    "songs" \in written =>
        /\ \A r1, r2 \in Rows(out.songs) : r1.song_id = r2.song_id => r1 = r2
        /\ \A r1, r2 \in Rows(views["songs"]) : r1.song_id = r2.song_id => r1 = r2

CatalogSongs ==
    {[song_id |-> c.song_id, title |-> c.title, artist_id |-> c.artist_id,
      year |-> c.year, duration |-> c.duration] : c \in BagToSet(song_data)}

\* C4 amended: the Track table, as written and as registered, holds each
\* combination of (song_id, title, artist_id, year, duration) of the catalog
\* exactly once; rows that share a song_id and differ elsewhere are all kept.
C4_DistinctRows ==
    "songs" \in written =>
        /\ Rows(out.songs) = CatalogSongs
        /\ \A r \in Rows(out.songs) : out.songs[r] = 1
        /\ views["songs"] = out.songs

C4_Witness ==
    /\ "songs" \in written
    /\ \E c \in BagToSet(song_data) : song_data[c] > 1
    /\ BagCardinality(out.songs) = 1

UsersOf(events) == {e.userId : e \in events}
RowCount(table, P(_)) == BagCardinality([r \in {x \in Rows(table) : P(x)} |-> table[r]])

\* C5 as stated: every user of an event record of any page has exactly one
\* row in the User table.
C5_Original ==
    "users" \in written =>
        \A u \in UsersOf(BagToSet(log_data)) :
            LET IsU(r) == r.user_id = u IN RowCount(out.users, IsU) = 1

\* C5 amended: every user of a play event has exactly one row in the User
\* table, and a user of non-play events only has none.
C5_OneRowPerPlayingUser ==
    "users" \in written =>
        \A u \in UsersOf(BagToSet(log_data)) :
            LET IsU(r) == r.user_id = u
            IN  RowCount(out.users, IsU) = IF u \in UsersOf(PlayEvents) THEN 1 ELSE 0

C5_Witness ==
    /\ "users" \in written
    /\ UsersOf(PlayEvents) # {}
    /\ UsersOf(BagToSet(log_data)) \ UsersOf(PlayEvents) # {}

\* C6: every Time row and every Fact row comes from a play event, and a run
\* with complete settings and records to read fails only on a play event (one
\* whose ts is missing), never on an event of another page: a log of such
\* events only is read to the end and leaves both tables empty.
C6_OnlyPlayEvents ==
    /\ "times" \in written =>
          \A r \in Rows(out.times) : \E e \in PlayEvents : Encodes(r.start_time, e.ts)
    /\ "songplays" \in written =>
          \A r \in Rows(out.songplays) : \E e \in PlayEvents : FactOf(r, e)
    /\ (pc = "failed" /\ config = ConfigKeys /\ song_data # EmptyBag /\ log_data # EmptyBag) =>
          \E e \in PlayEvents : e.ts = NullNum
    /\ (Terminal /\ config = ConfigKeys /\ song_data # EmptyBag /\ log_data # EmptyBag
            /\ PlayEvents = {}) =>
          out.times = EmptyBag /\ out.songplays = EmptyBag

C6_Witness ==
    /\ pc = "done"
    /\ PlayEvents # {}
    /\ \E e \in BagToSet(log_data) : e.page # "NextSong" /\ e.ts = NullNum

\* a Fact row without its songplay_id
NoId(r) ==
    [start_time |-> r.start_time, user_id |-> r.user_id, level |-> r.level,
     song_id |-> r.song_id, artist_id |-> r.artist_id, session_id |-> r.session_id,
     location |-> r.location, user_agent |-> r.user_agent, year |-> r.year,
     month |-> r.month]

\* C7 as stated: when the second run has completed, each of the five output
\* locations holds what the first run left there, the songplay_id values aside.
C7_Original ==
    (run = 2 /\ pc = "done") =>
        /\ \A l \in Locations \ {"songplays"} : out[l] = after1[l]
        /\ BagOfAll(NoId, out.songplays) = BagOfAll(NoId, after1.songplays)

\* the users whose most recent play events are several, with different profiles
TiedUsers ==
    {u \in UsersOf(PlayEvents) :
        \E e, f \in PlayEvents :
            /\ e.userId = u /\ f.userId = u /\ e.ts = f.ts
            /\ \A g \in PlayEvents : g.userId = u => NotAfter(g, e)
            /\ <<e.firstName, e.lastName, e.gender, e.level>>
                  # <<f.firstName, f.lastName, f.gender, f.level>>}

UntiedRows(table) == [r \in {x \in Rows(table) : x.user_id \notin TiedUsers} |-> table[r]]

\* C7 amended: when the second run ends, songs, artists and times hold what
\* the first run left, songplays holds the same rows up to songplay_id, and
\* users holds a row for the same user ids, the same row for every user
\* whose most recent play events do not tie on ts.
C7_RerunSameTables ==
    (run = 2 /\ Terminal) =>
        /\ \A l \in Locations \ {"songplays", "users"} : out[l] = after1[l]
        /\ BagOfAll(NoId, out.songplays) = BagOfAll(NoId, after1.songplays)
        /\ UntiedRows(out.users) = UntiedRows(after1.users)
        /\ {r.user_id : r \in Rows(out.users)} = {r.user_id : r \in Rows(after1.users)}
        /\ BagCardinality(out.users) = BagCardinality(after1.users)

C7_Witness ==
    /\ run = 2 /\ pc = "done"
    /\ BagCardinality(out.songplays) > 1
    /\ BagCardinality(out.songs) > 1
    /\ out.users # after1.users
    /\ \E r \in Rows(out.songplays) : \A q \in Rows(after1.songplays) : q # r

\* C8: with one of the four keys missing from the settings, the process
\* never gets past its start-up: it reads no input, writes no output location
\* and leaves all five as they were, and process_song_data and
\* process_log_data never run.
C8_MissingKeyIsFatal ==
    config # ConfigKeys =>
        /\ pc \in {"import", "main", "session", "failed"}
        /\ reads = {} /\ written = {}
        /\ out = StaleOut

C8_Witness ==
    /\ "output_bucket" \notin config
    /\ pc = "failed"
    /\ run = 2

C10_ReferentialIntegrity ==
    pc = "done" =>
        \A f \in Rows(out.songplays) :
            /\ LET IsAt(t) == t.start_time = f.start_time
               IN  RowCount(out.times, IsAt) = 1
            /\ \A t \in Rows(out.times) :
                  t.start_time = f.start_time => t.year = f.year /\ t.month = f.month
            /\ \E u \in Rows(out.users) : u.user_id = f.user_id
            /\ f.song_id # Null => \E t \in Rows(out.songs) : t.song_id = f.song_id

C10_Witness ==
    /\ pc = "done"
    /\ \E f \in Rows(out.songplays) : f.song_id # Null
    /\ \E f, g \in Rows(out.songplays) :
          f.start_time = g.start_time /\ f.songplay_id # g.songplay_id
    /\ BagCardinality(out.times) = 1

====
